---- MODULE Spec2Model ----
(***************************************************************************)
(* data/thermoml_archive/transform.py: the download / verify / extract /   *)
(* convert / describe pipeline get_and_transform_data and its helper       *)
(* _sha256_chunked_file_digest.                                            *)
(*                                                                         *)
(* Files are modelled as <<>> (the path does not exist) or <<content>>;    *)
(* the content of a byte file is a sequence of bytes.  SHA-256 is          *)
(* modelled collision-free: the digest of a byte string is the record      *)
(* [sha256 |-> bytes fed to the accumulator, in order].                    *)
(* pathlib.Path.rename is modelled with its POSIX behaviour (an existing   *)
(* target is replaced).  tar.extractall is modelled as creating the doi    *)
(* directories and their *.xml members, and nothing else.  A run may be    *)
(* terminated between any two steps.                                       *)
(***************************************************************************)
EXTENDS Integers, Sequences, FiniteSets, TLC

VARIABLES
    \* ---- file system -------------------------------------------------
    archive,        \* download_path: ThermoML.v2020-09-30.tgz
    csv,            \* final_csv_path: thermoml_archive.csv
    oldcsv,         \* thermoml_archive.old.csv
    meta,           \* meta.yaml
    dirs,           \* number of *.xml files in each of the root_dois directories
    tar_members,    \* number of *.xml members the pinned archive holds per root doi
    \* ---- one invocation of get_and_transform_data -----------------------
    pc,             \* position of the run
    data,           \* body of the response of requests.get
    sent,           \* number of bytes of data already written to download_path
    received_hash,
    csv_sha256_checksum,
    csv_hash,
    doi,            \* index in root_dois of the directory being looped over
    pending,        \* files of that directory the glob has not yielded yet
    num_points,
    num_failed,
    warned,         \* warnings emitted by the run
    \* ---- history of the run -------------------------------------------
    runNo,          \* number of invocations started
    archiveAtStart,
    csvAtStart,
    oldAtStart,
    metaAtStart,
    requested,      \* requests.get was called in this run
    extracted,      \* tar.extractall was called in this run
    renamed,        \* final_csv_path.rename was called in this run
    appended,       \* bytes appended to final_csv_path by this run
    outcomes,       \* per file visited by the loop of this run: parsed and appended?
    killedIn,       \* the latest terminated run was terminated in the conversion loop
    \* ---- one call of _sha256_chunked_file_digest, step by step ------------
    dpc,            \* "off", "iter", "done"
    fp,             \* the bytes of the stream
    pos,            \* read position of fp
    chunk,          \* the latest value of fp.read(8192)
    sha256,         \* bytes fed to the accumulator so far
    digest          \* the value returned

fsVars    == <<archive, csv, oldcsv, meta, dirs, tar_members>>
runVars   == <<pc, data, sent, received_hash, csv_sha256_checksum, csv_hash,
               doi, pending, num_points, num_failed, warned>>
histVars  == <<runNo, archiveAtStart, csvAtStart, oldAtStart, metaAtStart,
               requested, extracted, renamed, appended, outcomes, killedIn>>
digestVars == <<dpc, fp, pos, chunk, sha256, digest>>
vars == <<fsVars, runVars, histVars, digestVars>>

\* ---------------------------------------------------------------- bounds
MaxRuns   == 2      \* invocations of the pipeline
MaxFiles  == 2      \* *.xml members of the pinned archive, all root dois together
MaxChunks == 2      \* stream lengths go up to MaxChunks * ChunkSize + 1
MaxSeed   == 3      \* byte patterns of the streams

\* ------------------------------------------------------------- constants
ChunkSize == 8192

Min(a, b) == IF a < b THEN a ELSE b

Absent == <<>>
File(content) == <<content>>
Content(f) == f[1]

\* ------------------------------------------- _sha256_chunked_file_digest
\* hashlib.sha256(): the empty accumulator
NewSha256 == <<>>
\* sha256.update(chunk)
Update(acc, c) == acc \o c
\* sha256.hexdigest()
HexDigest(acc) == [sha256 |-> acc]
\* the digest of a whole buffer hashed at once
Sha256(bytes) == HexDigest(Update(NewSha256, bytes))
NoHash == [sha256 |-> <<-1>>]

\* fp.read(n) at position p when the stream hands over k <= n bytes
ReadChunk(s, p, k) == SubSeq(s, p + 1, p + k)

\* The sizes fp.read(8192) may return with r bytes left: all that is asked for
\* (or all that is left); a BinaryIO that is not a buffered file may also
\* return less, which is modelled by a read of half a chunk.
ReadSizes(r) ==
    {Min(ChunkSize, r)} \cup (IF r > ChunkSize \div 2 THEN {ChunkSize \div 2} ELSE {})

\* iter(lambda: fp.read(8192), b""): the iteration ends at the first empty read
\* (faulty variant: the iteration ends at the first short read)
IsSentinel_ShortRead(c) == Len(c) < ChunkSize
IsSentinel(c) == c = <<>>

\* The whole call on a buffered file (open(path, "rb")), whose reads are full.
RECURSIVE DigestLoop(_, _, _)
DigestLoop(s, p, acc) ==
    LET c == ReadChunk(s, p, Min(ChunkSize, Len(s) - p))
    IN  IF IsSentinel(c) THEN HexDigest(acc)
        ELSE DigestLoop(s, p + Len(c), Update(acc, c))

_sha256_chunked_file_digest(s) == DigestLoop(s, 0, NewSha256)

\* ------------------------------------------------------ pinned constants
\* The pinned archive and a body that is not it (an error page, say).
PinnedArchive == <<31, 139, 8>>
OtherBody     == <<60, 33>>
RemoteBodies  == {PinnedArchive, OtherBody}
sha256_checksum == Sha256(PinnedArchive)

root_dois == <<"10.1007", "10.1016", "10.1021">>
Dois == 1..Len(root_dois)

\* DataFrame.to_csv(final_csv_path, mode="a") of the rows of file k of doi d:
\* a header line and the rows of the file
Rows(d, k) == <<0, 10 * d + k>>

\* The table whose digest final_expected_csv_checksum pins, and one it does not.
FinalExpectedCsv == Rows(1, 1) \o Rows(2, 1)
StaleCsv == <<0, 255>>
final_expected_csv_checksum == Sha256(FinalExpectedCsv)

\* Dataset(**{...}) / yaml.dump(meta.dict(), f): the descriptor
Dataset(n) == [name |-> "thermoml_archive", num_points |-> n]
PriorMeta == Dataset(-1)

\* ------------------------------------------------ get_and_transform_data
InRun == {"exists", "request", "open_wb", "write", "hash_archive",
          "compare_archive", "csv_exists", "compare_csv", "extract",
          "for_doi", "for_path", "print", "hash_final", "compare_final",
          "write_meta"}
\* "done": the function returned at its end; "returned": the early return;
\* "fatal": the RuntimeError of the archive check; "crashed": another
\* exception left the function; "killed": the process was terminated.
Ended == {"done", "returned", "fatal", "crashed", "killed"}

Init ==
    /\ archive \in {Absent, File(PinnedArchive), File(OtherBody)}
    /\ csv \in {Absent, File(FinalExpectedCsv), File(StaleCsv)}
    /\ oldcsv = Absent
    /\ meta \in {Absent, File(PriorMeta)}
    /\ dirs = [d \in Dois |-> 0]
    /\ tar_members \in {t \in [Dois -> 0..MaxFiles] : t[1] + t[2] + t[3] <= MaxFiles}
    /\ pc = "idle"
    /\ data = <<>>
    /\ sent = 0
    /\ received_hash = NoHash
    /\ csv_sha256_checksum = NoHash
    /\ csv_hash = NoHash
    /\ doi = 0
    /\ pending = {}
    /\ num_points = 0
    /\ num_failed = 0
    /\ warned = {}
    /\ runNo = 0
    /\ archiveAtStart = Absent
    /\ csvAtStart = Absent
    /\ oldAtStart = Absent
    /\ metaAtStart = Absent
    /\ requested = FALSE
    /\ extracted = FALSE
    /\ renamed = FALSE
    /\ appended = <<>>
    /\ outcomes = <<>>
    /\ killedIn = FALSE
    /\ dpc = "off"
    /\ fp = <<>>
    /\ pos = 0
    /\ chunk = <<>>
    /\ sha256 = <<>>
    /\ digest = NoHash

\* The script is invoked: the locals of the call are fresh.
Start ==
    /\ pc \in {"idle"} \cup Ended
    /\ runNo < MaxRuns
    /\ pc' = "exists"
    /\ runNo' = runNo + 1
    /\ data' = <<>>
    /\ sent' = 0
    /\ received_hash' = NoHash
    /\ csv_sha256_checksum' = NoHash
    /\ csv_hash' = NoHash
    /\ doi' = 0
    /\ pending' = {}
    /\ num_points' = 0
    /\ num_failed' = 0
    /\ warned' = {}
    /\ archiveAtStart' = archive
    /\ csvAtStart' = csv
    /\ oldAtStart' = oldcsv
    /\ metaAtStart' = meta
    /\ requested' = FALSE
    /\ extracted' = FALSE
    /\ renamed' = FALSE
    /\ appended' = <<>>
    /\ outcomes' = <<>>
    /\ UNCHANGED <<fsVars, killedIn, digestVars>>

\* The process is terminated between two steps of a run: the files stay as
\* they are, the locals of the call are gone.
Kill ==
    /\ pc \in InRun
    /\ pc' = "killed"
    /\ killedIn' = (pc \in {"for_doi", "for_path"})
    /\ data' = <<>>
    /\ sent' = 0
    /\ received_hash' = NoHash
    /\ csv_sha256_checksum' = NoHash
    /\ csv_hash' = NoHash
    /\ doi' = 0
    /\ pending' = {}
    /\ num_points' = 0
    /\ num_failed' = 0
    /\ warned' = {}
    /\ archiveAtStart' = Absent
    /\ csvAtStart' = Absent
    /\ oldAtStart' = Absent
    /\ metaAtStart' = Absent
    /\ requested' = FALSE
    /\ extracted' = FALSE
    /\ renamed' = FALSE
    /\ appended' = <<>>
    /\ outcomes' = <<>>
    /\ UNCHANGED <<fsVars, runNo, digestVars>>

\* if not download_path.exists():
\* (faulty variants: fetch always; fetch again over a file of a wrong digest)
ShouldFetch_Always(f) == TRUE
ShouldFetch_IfWrong(f) ==
    f = Absent \/ _sha256_chunked_file_digest(Content(f)) # sha256_checksum
ShouldFetch(f) == f = Absent

DownloadExists ==
    /\ pc = "exists"
    /\ pc' = IF ShouldFetch(archive) THEN "request" ELSE "hash_archive"
    /\ UNCHANGED <<fsVars, data, sent, received_hash, csv_sha256_checksum,
                   csv_hash, doi, pending, num_points, num_failed, warned,
                   histVars, digestVars>>

\* data = requests.get(remote_data_path): the server answers with some body
\* (no status check is made on it) ...
Request ==
    /\ pc = "request"
    /\ \E body \in RemoteBodies : data' = body
    /\ requested' = TRUE
    /\ pc' = "open_wb"
    /\ UNCHANGED <<fsVars, sent, received_hash, csv_sha256_checksum, csv_hash,
                   doi, pending, num_points, num_failed, warned,
                   runNo, archiveAtStart, csvAtStart, oldAtStart, metaAtStart,
                   extracted, renamed, appended, outcomes,
                   killedIn, digestVars>>

\* ... or the request raises (no connection).
RequestFails ==
    /\ pc = "request"
    /\ requested' = TRUE
    /\ pc' = "crashed"
    /\ UNCHANGED <<fsVars, data, sent, received_hash, csv_sha256_checksum,
                   csv_hash, doi, pending, num_points, num_failed, warned,
                   runNo, archiveAtStart, csvAtStart, oldAtStart, metaAtStart,
                   extracted, renamed, appended, outcomes,
                   killedIn, digestVars>>

\* with open(download_path, "wb") as f: the file is created, empty
OpenDownload ==
    /\ pc = "open_wb"
    /\ archive' = File(<<>>)
    /\ sent' = 0
    /\ pc' = "write"
    /\ UNCHANGED <<csv, oldcsv, meta, dirs, tar_members, data, received_hash,
                   csv_sha256_checksum, csv_hash, doi, pending, num_points,
                   num_failed, warned, runNo, archiveAtStart, csvAtStart,
                   oldAtStart, metaAtStart, requested, extracted, renamed,
                   appended, outcomes, killedIn, digestVars>>

\* for chunk in data.iter_content(chunk_size=8192): f.write(chunk)
WriteChunk ==
    /\ pc = "write"
    /\ sent < Len(data)
    /\ LET c == ReadChunk(data, sent, Min(ChunkSize, Len(data) - sent))
       IN  /\ archive' = File(Content(archive) \o c)
           /\ sent' = sent + Len(c)
    /\ UNCHANGED <<csv, oldcsv, meta, dirs, tar_members, pc, data,
                   received_hash, csv_sha256_checksum, csv_hash, doi, pending,
                   num_points, num_failed, warned, histVars, digestVars>>

\* the body is exhausted: the file is closed
CloseDownload ==
    /\ pc = "write"
    /\ sent = Len(data)
    /\ pc' = "hash_archive"
    /\ UNCHANGED <<fsVars, data, sent, received_hash, csv_sha256_checksum,
                   csv_hash, doi, pending, num_points, num_failed, warned,
                   histVars, digestVars>>

\* with open(download_path, "rb") as f: received_hash = _sha256_chunked_file_digest(f)
HashArchive ==
    /\ pc = "hash_archive"
    /\ received_hash' = _sha256_chunked_file_digest(Content(archive))
    /\ pc' = "compare_archive"
    /\ UNCHANGED <<fsVars, data, sent, csv_sha256_checksum, csv_hash, doi,
                   pending, num_points, num_failed, warned, histVars, digestVars>>

\* if received_hash != sha256_checksum: raise RuntimeError(...)
\* (faulty variant: the comparison never fails)
ArchiveOk_Always(h) == TRUE
ArchiveOk(h) == h = sha256_checksum

CompareArchive ==
    /\ pc = "compare_archive"
    /\ pc' = IF ArchiveOk(received_hash) THEN "csv_exists" ELSE "fatal"
    /\ UNCHANGED <<fsVars, data, sent, received_hash, csv_sha256_checksum,
                   csv_hash, doi, pending, num_points, num_failed, warned,
                   histVars, digestVars>>

\* if final_csv_path.exists(): csv_sha256_checksum = _sha256_chunked_file_digest(f)
CsvExists ==
    /\ pc = "csv_exists"
    /\ IF csv # Absent
         THEN /\ csv_sha256_checksum' = _sha256_chunked_file_digest(Content(csv))
              /\ pc' = "compare_csv"
         ELSE /\ csv_sha256_checksum' = csv_sha256_checksum
              /\ pc' = "extract"
    /\ UNCHANGED <<fsVars, data, sent, received_hash, csv_hash, doi, pending,
                   num_points, num_failed, warned, histVars, digestVars>>

\* if csv_sha256_checksum != final_expected_csv_checksum
\* (faulty variant: an existing table is never accepted)
CsvOk_Never(h) == FALSE
CsvOk(h) == h = final_expected_csv_checksum

\* final_csv_path.rename(final_csv_path.with_suffix(".old.csv")): what the
\* target path holds afterwards, and what the source path holds afterwards
\* (faulty variants: the old table is removed, not moved; it is copied, not moved)
RenameTarget_Unlink(src, dst) == dst
RenameTarget(src, dst) == src
RenameSource_Copy(src) == src
RenameSource(src) == Absent

\* the old table does not match: warn and rename it aside
RenameStale ==
    /\ pc = "compare_csv"
    /\ ~CsvOk(csv_sha256_checksum)
    /\ warned' = warned \cup {"old"}
    /\ oldcsv' = RenameTarget(csv, oldcsv)
    /\ csv' = RenameSource(csv)
    /\ renamed' = TRUE
    /\ pc' = "extract"
    /\ UNCHANGED <<archive, meta, dirs, tar_members, data, sent, received_hash,
                   csv_sha256_checksum, csv_hash, doi, pending, num_points,
                   num_failed, runNo, archiveAtStart, csvAtStart, oldAtStart,
                   metaAtStart, requested, extracted, appended, outcomes,
                   killedIn, digestVars>>

\* else: print(...); return
ReturnEarly ==
    /\ pc = "compare_csv"
    /\ CsvOk(csv_sha256_checksum)
    /\ pc' = "returned"
    /\ UNCHANGED <<fsVars, data, sent, received_hash, csv_sha256_checksum,
                   csv_hash, doi, pending, num_points, num_failed, warned,
                   histVars, digestVars>>

\* tar.extractall(parent): the archive's directories and members appear;
\* then num_points = 0, num_failed = 0
Extract ==
    /\ pc = "extract"
    /\ dirs' = tar_members
    /\ extracted' = TRUE
    /\ num_points' = 0
    /\ num_failed' = 0
    /\ doi' = 0
    /\ pc' = "for_doi"
    /\ UNCHANGED <<archive, csv, oldcsv, meta, tar_members, data, sent,
                   received_hash, csv_sha256_checksum, csv_hash, pending, warned,
                   runNo, archiveAtStart, csvAtStart, oldAtStart, metaAtStart,
                   requested, renamed, appended, outcomes,
                   killedIn, digestVars>>

\* for doi in root_dois: the glob of the next directory is started
NextDoi ==
    /\ pc = "for_doi"
    /\ doi < Len(root_dois)
    /\ doi' = doi + 1
    /\ pending' = 1..dirs[doi + 1]
    /\ pc' = "for_path"
    /\ UNCHANGED <<fsVars, data, sent, received_hash, csv_sha256_checksum,
                   csv_hash, num_points, num_failed, warned, histVars, digestVars>>

\* root_dois is exhausted
LoopDone ==
    /\ pc = "for_doi"
    /\ doi = Len(root_dois)
    /\ pc' = "print"
    /\ UNCHANGED <<fsVars, data, sent, received_hash, csv_sha256_checksum,
                   csv_hash, doi, pending, num_points, num_failed, warned,
                   histVars, digestVars>>

\* the glob of the directory is exhausted
GlobDone ==
    /\ pc = "for_path"
    /\ pending = {}
    /\ pc' = "for_doi"
    /\ UNCHANGED <<fsVars, data, sent, received_hash, csv_sha256_checksum,
                   csv_hash, doi, pending, num_points, num_failed, warned,
                   histVars, digestVars>>

\* to_csv(final_csv_path, mode="a"): the file is created when absent
ToCsvAppend(f, rows) == IF f = Absent THEN File(rows) ELSE File(Content(f) \o rows)

\* the glob yields a file (in any order), it parses, its rows are appended
ParseOk ==
    /\ pc = "for_path"
    /\ \E k \in pending :
         /\ pending' = pending \ {k}
         /\ csv' = ToCsvAppend(csv, Rows(doi, k))
         /\ appended' = appended \o Rows(doi, k)
    /\ num_points' = num_points + 1
    /\ outcomes' = Append(outcomes, TRUE)
    /\ UNCHANGED <<archive, oldcsv, meta, dirs, tar_members, pc, data, sent,
                   received_hash, csv_sha256_checksum, csv_hash, doi,
                   num_failed, warned, runNo, archiveAtStart, csvAtStart,
                   oldAtStart, metaAtStart, requested, extracted, renamed,
                   killedIn, digestVars>>

\* the glob yields a file and parsing it raises: except Exception
ParseFails ==
    /\ pc = "for_path"
    /\ \E k \in pending : pending' = pending \ {k}
    /\ num_failed' = num_failed + 1
    /\ outcomes' = Append(outcomes, FALSE)
    /\ UNCHANGED <<fsVars, pc, data, sent, received_hash, csv_sha256_checksum,
                   csv_hash, doi, num_points, warned, runNo, archiveAtStart,
                   csvAtStart, oldAtStart, metaAtStart, requested, extracted,
                   renamed, appended, killedIn, digestVars>>

\* print(f"Ingested {num_points} with {num_failed} failures.")
PrintSummary ==
    /\ pc = "print"
    /\ pc' = "hash_final"
    /\ UNCHANGED <<fsVars, data, sent, received_hash, csv_sha256_checksum,
                   csv_hash, doi, pending, num_points, num_failed, warned,
                   histVars, digestVars>>

\* with open(final_csv_path, "rb") as f: csv_hash = _sha256_chunked_file_digest(f)
\* open raises FileNotFoundError when no to_csv call created the file
HashFinal ==
    /\ pc = "hash_final"
    /\ IF csv = Absent
         THEN /\ pc' = "crashed"
              /\ csv_hash' = csv_hash
         ELSE /\ pc' = "compare_final"
              /\ csv_hash' = _sha256_chunked_file_digest(Content(csv))
    /\ UNCHANGED <<fsVars, data, sent, received_hash, csv_sha256_checksum,
                   doi, pending, num_points, num_failed, warned, histVars,
                   digestVars>>

\* if csv_hash != final_expected_csv_checksum: warnings.warn(...); the run goes on
\* (faulty variant: the mismatch raises)
OnFinalMismatch_Raise == "crashed"
OnFinalMismatch == "write_meta"

CompareFinal ==
    /\ pc = "compare_final"
    /\ IF csv_hash # final_expected_csv_checksum
         THEN /\ warned' = warned \cup {"final"}
              /\ pc' = OnFinalMismatch
         ELSE /\ warned' = warned
              /\ pc' = "write_meta"
    /\ UNCHANGED <<fsVars, data, sent, received_hash, csv_sha256_checksum,
                   csv_hash, doi, pending, num_points, num_failed, histVars,
                   digestVars>>

\* "num_points": num_points
\* (faulty variant: every file visited is counted)
MetaNumPoints_Visited == num_points + num_failed
MetaNumPoints == num_points

\* with open("meta.yaml", "w") as f: yaml.dump(meta.dict(), f, sort_keys=False)
WriteMeta ==
    /\ pc = "write_meta"
    /\ meta' = File(Dataset(MetaNumPoints))
    /\ pc' = "done"
    /\ UNCHANGED <<archive, csv, oldcsv, dirs, tar_members, data, sent,
                   received_hash, csv_sha256_checksum, csv_hash, doi, pending,
                   num_points, num_failed, warned, histVars, digestVars>>

Next ==
    \/ Start
    \/ Kill
    \/ DownloadExists
    \/ Request
    \/ RequestFails
    \/ OpenDownload
    \/ WriteChunk
    \/ CloseDownload
    \/ HashArchive
    \/ CompareArchive
    \/ CsvExists
    \/ RenameStale
    \/ ReturnEarly
    \/ Extract
    \/ NextDoi
    \/ LoopDone
    \/ GlobDone
    \/ ParseOk
    \/ ParseFails
    \/ PrintSummary
    \/ HashFinal
    \/ CompareFinal
    \/ WriteMeta

Spec == Init /\ [][Next]_vars

\* --------------------------- _sha256_chunked_file_digest, one read at a time
\* Streams of the lengths around the chunk size and its multiples.
StreamLengths ==
    {0, 1} \cup {k * ChunkSize + d : k \in 1..MaxChunks, d \in {-1, 0, 1}}
StreamOf(n, seed) == [i \in 1..n |-> (i * (2 * seed + 1) + seed) % 256]
Streams == {StreamOf(n, seed) : n \in StreamLengths, seed \in 0..MaxSeed}

DigestInit ==
    /\ archive = Absent
    /\ csv = Absent
    /\ oldcsv = Absent
    /\ meta = Absent
    /\ dirs = [d \in Dois |-> 0]
    /\ tar_members = [d \in Dois |-> 0]
    /\ pc = "idle"
    /\ data = <<>>
    /\ sent = 0
    /\ received_hash = NoHash
    /\ csv_sha256_checksum = NoHash
    /\ csv_hash = NoHash
    /\ doi = 0
    /\ pending = {}
    /\ num_points = 0
    /\ num_failed = 0
    /\ warned = {}
    /\ runNo = 0
    /\ archiveAtStart = Absent
    /\ csvAtStart = Absent
    /\ oldAtStart = Absent
    /\ metaAtStart = Absent
    /\ requested = FALSE
    /\ extracted = FALSE
    /\ renamed = FALSE
    /\ appended = <<>>
    /\ outcomes = <<>>
    /\ killedIn = FALSE
    \* sha256 = hashlib.sha256()
    /\ dpc = "iter"
    /\ fp \in Streams
    /\ pos = 0
    /\ chunk = <<>>
    /\ sha256 = NewSha256
    /\ digest = NoHash

\* for chunk in iter(lambda: fp.read(8192), b""): sha256.update(chunk)
ReadAndUpdate ==
    /\ dpc = "iter"
    /\ \E k \in ReadSizes(Len(fp) - pos) :
         LET c == ReadChunk(fp, pos, k)
         IN  /\ ~IsSentinel(c)
             /\ chunk' = c
             /\ pos' = pos + Len(c)
             /\ sha256' = Update(sha256, c)
    /\ UNCHANGED <<fsVars, runVars, histVars, dpc, fp, digest>>

\* the read returns the sentinel: return sha256.hexdigest()
ReadSentinel ==
    /\ dpc = "iter"
    /\ \E k \in ReadSizes(Len(fp) - pos) :
         LET c == ReadChunk(fp, pos, k)
         IN  /\ IsSentinel(c)
             /\ chunk' = c
             /\ pos' = pos + Len(c)
    /\ digest' = HexDigest(sha256)
    /\ dpc' = "done"
    /\ UNCHANGED <<fsVars, runVars, histVars, fp, sha256>>

DigestNext ==
    \/ ReadAndUpdate
    \/ ReadSentinel

SpecDigest == DigestInit /\ [][DigestNext]_vars

\* ------------------------------------------------------------------ claims
FileDigest(f) == _sha256_chunked_file_digest(Content(f))
Successes(o) == Cardinality({i \in 1..Len(o) : o[i]})
Failures(o) == Cardinality({i \in 1..Len(o) : ~o[i]})
Enumerated == dirs[1] + dirs[2] + dirs[3]

\* C1: a run whose archive digest differs from the pinned constant ends with
\* the fatal error before extraction, and neither creates, renames nor
\* modifies the output table; extraction only happens in a run whose archive
\* digest equalled the pinned value.
C1_MismatchIsFatal ==
    /\ extracted =>
         /\ received_hash = sha256_checksum
         /\ FileDigest(archive) = sha256_checksum
    /\ (received_hash # NoHash /\ received_hash # sha256_checksum) =>
         /\ pc \in {"compare_archive", "fatal"}
         /\ ~extracted
         /\ ~renamed
         /\ appended = <<>>
         /\ csv = csvAtStart
         /\ oldcsv = oldAtStart

C1_Witness ==
    /\ pc = "fatal"
    /\ requested
    /\ received_hash = Sha256(OtherBody)
    /\ csv = File(StaleCsv)

C2_Pre ==
    /\ pc # "idle"
    /\ archiveAtStart # Absent
    /\ FileDigest(archiveAtStart) = sha256_checksum
    /\ csvAtStart # Absent
    /\ FileDigest(csvAtStart) = final_expected_csv_checksum

\* C2: a run that starts with an archive of the pinned digest and an output
\* table of the pinned final digest extracts nothing, converts nothing,
\* returns early and leaves the table as it was, in every invocation.
C2_CorrectTableShortCircuits ==
    C2_Pre =>
        /\ pc \in {"exists", "hash_archive", "compare_archive", "csv_exists",
                   "compare_csv", "returned"}
        /\ ~requested
        /\ ~extracted
        /\ ~renamed
        /\ outcomes = <<>>
        /\ appended = <<>>
        /\ csv = csvAtStart
        /\ oldcsv = oldAtStart
        /\ meta = metaAtStart

C2_Witness ==
    /\ C2_Pre
    /\ pc = "returned"
    /\ runNo >= 2
    /\ csv = File(FinalExpectedCsv)

C3_Pre ==
    /\ pc # "idle"
    /\ received_hash = sha256_checksum
    /\ csvAtStart # Absent
    /\ FileDigest(csvAtStart) # final_expected_csv_checksum

\* C3: in a run with a verified archive and an existing output table whose
\* digest is not the pinned final one, the old table is renamed to
\* thermoml_archive.old.csv before any row is written, the renamed file holds
\* the bytes of the old table, and the run goes on to rebuild (no early
\* return, no abort at the check).
C3_StaleTableRenamedAside ==
    C3_Pre =>
        /\ pc \notin {"returned", "fatal"}
        /\ pc \in {"extract", "for_doi", "for_path", "print", "hash_final",
                   "compare_final", "write_meta", "done", "crashed"} => renamed
        /\ pc = "crashed" => extracted
        /\ extracted => renamed
        /\ appended # <<>> => renamed
        /\ renamed => oldcsv = csvAtStart
        /\ ~renamed => csv = csvAtStart
        /\ pc = "extract" => csv = Absent

C3_Witness ==
    /\ C3_Pre
    /\ renamed
    /\ appended # <<>>
    /\ oldcsv = File(StaleCsv)
    /\ pc = "done"

C4_LoopOver ==
    /\ extracted
    /\ doi = Len(root_dois)
    /\ pc \in {"print", "hash_final", "compare_final", "write_meta", "done",
               "crashed"}

\* C4: for every batch of N enumerated record files of which K fail to parse
\* (0 <= K <= N, K = N and N = 0 included) the loop visits every file, ends
\* with num_points = N - K and num_failed = K, and the run reaches the
\* writing of meta.yaml: it does not end in an exception after the loop.
C4_BatchAlwaysReachesMetadata ==
    C4_LoopOver =>
        /\ Len(outcomes) = Enumerated
        /\ num_failed = Failures(outcomes)
        /\ num_points = Enumerated - Failures(outcomes)
        /\ pc # "crashed"

\* The counters of C4 alone, which the loop does keep.
C4_Counters ==
    C4_LoopOver =>
        /\ Len(outcomes) = Enumerated
        /\ num_failed = Failures(outcomes)
        /\ num_points = Enumerated - Failures(outcomes)

\* C5: when the digest of the output table recomputed after the loop differs
\* from the pinned final value the run only warns: it raises nothing, leaves
\* the output table (and the renamed one) alone, and writes meta.yaml over
\* any earlier one.
C5_FinalMismatchOnlyWarns ==
    (csv_hash # NoHash /\ csv_hash # final_expected_csv_checksum) =>
        /\ pc \in {"compare_final", "write_meta", "done"}
        /\ pc \in {"write_meta", "done"} => "final" \in warned
        /\ csv # Absent
        /\ FileDigest(csv) = csv_hash
        /\ csv = File(appended)
        /\ oldcsv = (IF renamed THEN csvAtStart ELSE oldAtStart)
        /\ pc = "done" => meta = File(Dataset(num_points))

C5_Witness ==
    /\ pc = "done"
    /\ "final" \in warned
    /\ csv_hash # final_expected_csv_checksum
    /\ metaAtStart = File(PriorMeta)
    /\ meta # metaAtStart

\* C6: in every run that writes meta.yaml, its num_points field is the value
\* of the success counter at the end of that run's loop: the number of files
\* parsed and appended without an exception.
C6_MetaCountsSuccesses ==
    /\ (pc \notin {"idle", "killed"} /\ meta # metaAtStart) => pc = "done"
    /\ pc = "done" =>
         /\ meta # Absent
         /\ Content(meta).num_points = num_points
         /\ num_points = Successes(outcomes)
         /\ Len(outcomes) = Enumerated

C6_Witness ==
    /\ pc = "done"
    /\ num_points >= 1
    /\ num_failed >= 1
    /\ Content(meta).num_points = num_points

\* C7: _sha256_chunked_file_digest reads chunks of at most 8192 bytes until an
\* empty read, feeds the accumulator exactly the bytes of the stream in order,
\* and returns the digest of the whole buffer hashed at once.
C7_ChunkedEqualsWhole ==
    /\ dpc # "off" =>
         /\ Len(chunk) <= ChunkSize
         /\ pos <= Len(fp)
         /\ sha256 = SubSeq(fp, 1, pos)
    /\ dpc = "done" =>
         /\ chunk = <<>>
         /\ sha256 = fp
         /\ digest = Sha256(fp)
         /\ _sha256_chunked_file_digest(fp) = Sha256(fp)

C7_Witness ==
    /\ dpc = "done"
    /\ Len(fp) = ChunkSize + 1
    /\ digest = Sha256(fp)

\* C8: a run requests the remote URL only if the archive file is absent when
\* the run starts; when the file exists no request is made and no stage of
\* the run writes to it or replaces it.
C8_FetchOnlyIfAbsent ==
    /\ requested => archiveAtStart = Absent
    /\ pc \in {"request", "open_wb", "write"} => archiveAtStart = Absent
    /\ (pc # "idle" /\ archiveAtStart # Absent) =>
         /\ ~requested
         /\ archive = archiveAtStart

C8_Witness ==
    /\ pc = "done"
    /\ archiveAtStart = File(PinnedArchive)
    /\ archive = archiveAtStart
    /\ ~requested
    /\ appended # <<>>

\* C9: when the conversion loop starts the output table does not exist, so
\* whatever runs came before (runs terminated during conversion included) the
\* table of a completed run holds the rows that run appended and nothing else.
C9_TableHoldsOnlyThisRunsRows ==
    /\ pc = "extract" => csv = Absent
    /\ (pc = "for_doi" /\ doi = 0) => csv = Absent
    /\ extracted => csv = (IF appended = <<>> THEN Absent ELSE File(appended))
    /\ pc = "done" => csv = File(appended)

C9_Witness ==
    /\ pc = "done"
    /\ runNo >= 2
    /\ killedIn
    /\ csvAtStart # Absent
    /\ renamed
    /\ csv = File(appended)

C10_Pre ==
    /\ pc # "idle"
    /\ archiveAtStart # Absent
    /\ FileDigest(archiveAtStart) # sha256_checksum

\* C10: once a run has left an archive file of a wrong digest, every later
\* run skips the fetch, fails the archive check with the same digest and never
\* extracts: restarting does not recover, the file stays as it is.
C10_WrongArchiveIsSticky ==
    C10_Pre =>
        /\ ~requested
        /\ archive = archiveAtStart
        /\ ~extracted
        /\ pc \in {"exists", "hash_archive", "compare_archive", "fatal"}
        /\ received_hash \in {NoHash, FileDigest(archiveAtStart)}
        /\ pc = "fatal" => received_hash = FileDigest(archiveAtStart)

C10_Witness ==
    /\ C10_Pre
    /\ pc = "fatal"
    /\ runNo >= 2
    /\ ~requested
    /\ archive = File(<<>>)
====
